---------------------------- MODULE Spec2Model ----------------------------
(***************************************************************************)
(* Melo (mood -> playlist): the track canonicalisation and the per-mood    *)
(* anti-repeat history of frontend/src/App.jsx.                            *)
(*                                                                         *)
(* Text is modelled as a sequence of tokens.  A token is one character or  *)
(* one word of the vocabulary the normaliser looks for:                    *)
(*   letters "a" "b" "c" "d", and upper case "A" "H";  " " whitespace;     *)
(*   "(" ")" brackets;  "-" a dash separator;  "!" any other punctuation;  *)
(*   "live" a version keyword;  "with" a credit keyword;  "_" underscore;  *)
(*   "E" an emoji;  "EM" the em dash (U+2014).                             *)
(* JavaScript values that are not text (track ids) are written as their    *)
(* source literal: "1", "0", "undefined".                                  *)
(***************************************************************************)
EXTENDS Integers, Sequences, FiniteSets, TLC

-----------------------------------------------------------------------------
(* Bounds of the model *)

\* entries kept per set by saveSeenForMood; stands for the 800 of the source
Cap == 2
\* exclusion hints sent per set; stands for the 300 of the source
HintLimit == 1
\* tracks in one upstream response
MaxPool == 2
\* tracks in one list given to the shuffle alone
MaxShuffle == 3
\* characters and words in one title given to normalizeTitle alone
MaxTitle == 3
\* generates started in one behaviour
MaxGenerates == 2

-----------------------------------------------------------------------------
(* Text helpers *)

WS == {" "}
LetterToks == {"a", "b", "c", "d", "h", "s"}
VersionWords == {"live"}
CreditWords == {"with"}
OpenToks == {"("}
CloseToks == {")"}
DashToks == {"-", "EM"}
\* characters matched by \w: these decide the \b word boundaries
WordToks == LetterToks \cup VersionWords \cup CreditWords \cup {"_"}

\* String.prototype.toLowerCase, token by token
LowerTok(c) == CASE c = "A" -> "a" [] c = "H" -> "h" [] OTHER -> c

toLowerCase(s) == [i \in 1..Len(s) |-> LowerTok(s[i])]

\* s.slice(from) with 1-based from
Drop(s, n) == IF n >= Len(s) THEN <<>> ELSE SubSeq(s, n + 1, Len(s))

Take(s, n) == IF n <= 0 THEN <<>> ELSE SubSeq(s, 1, IF n > Len(s) THEN Len(s) ELSE n)

\* number of leading / trailing whitespace tokens
RECURSIVE LeadWS(_)
LeadWS(s) == IF s # <<>> /\ Head(s) \in WS THEN 1 + LeadWS(Tail(s)) ELSE 0

RECURSIVE TrailWS(_)
TrailWS(s) ==
  IF s # <<>> /\ s[Len(s)] \in WS THEN 1 + TrailWS(Take(s, Len(s) - 1)) ELSE 0

\* String.prototype.trim
trim(s) ==
  LET a == LeadWS(s) IN
  IF a = Len(s) THEN <<>> ELSE SubSeq(s, a + 1, Len(s) - TrailWS(s))

\* Array.prototype.slice(-n): the last n elements
\* a slice from the front: the oldest entries
SliceFirst(s, n) == Take(s, n)

SliceLast(s, n) == IF Len(s) <= n THEN s ELSE SubSeq(s, Len(s) - n + 1, Len(s))

Range(s) == {s[i] : i \in 1..Len(s)}

\* new Set(list) followed by Array.from: first occurrences, in order
RECURSIVE SetOrder(_)
SetOrder(s) ==
  IF s = <<>> THEN <<>>
  ELSE LET r == SetOrder(Take(s, Len(s) - 1)) IN
       IF s[Len(s)] \in Range(r) THEN r ELSE Append(r, s[Len(s)])

\* an add that moves an entry already present to the end
SetRefresh(s, x) == Append(SelectSeq(s, LAMBDA y : y # x), x)

\* Set.prototype.add on the insertion-ordered list
SetAdd(s, x) == IF x \in Range(s) THEN s ELSE Append(s, x)

-----------------------------------------------------------------------------
(* Title normaliser: normalizeTitle, one operator per replace() call *)

\* where a replace() finds its first match: the least index of hits, 0 for none
Leftmost(hits) ==
  IF hits = {} THEN 0 ELSE CHOOSE x \in hits : \A y \in hits : x <= y

\* length of the whitespace run that ends just before index i
RECURSIVE WSBefore(_, _)
WSBefore(s, i) == IF i > 1 /\ s[i - 1] \in WS THEN 1 + WSBefore(s, i - 1) ELSE 0

\* length of the whitespace run that starts just after index i
RECURSIVE WSAfter(_, _)
WSAfter(s, i) == IF i < Len(s) /\ s[i + 1] \in WS THEN 1 + WSAfter(s, i + 1) ELSE 0

\* last index r >= i - 1 such that s[i..r] holds no token of the set stop
RECURSIVE RunEnd(_, _, _)
RunEnd(s, i, stop) ==
  IF i <= Len(s) /\ s[i] \notin stop THEN RunEnd(s, i + 1, stop) ELSE i - 1

\* (feat\.|featuring|with)\s+[^)\-...]+\)?  with the keyword at k:
\* the index of the last token matched, 0 when the tail does not match
CreditTail(s, k, r) ==
  IF r < k + 2 THEN 0
  ELSE IF r < Len(s) /\ s[r + 1] \in CloseToks THEN r + 1 ELSE r

CreditEnd(s, k) ==
  IF k >= Len(s) \/ s[k + 1] \notin WS THEN 0
  ELSE CreditTail(s, k, RunEnd(s, k + 1, CloseToks \cup DashToks))

\* \s*(\(|-|...)?\s*  read backwards from the keyword at k: the first index matched
CreditStart(s, k) ==
  LET j == k - WSBefore(s, k) IN
  IF j > 1 /\ s[j - 1] \in (OpenToks \cup DashToks)
    THEN (j - 1) - WSBefore(s, j - 1)
    ELSE j

\* s.replace(/\s*(\(|-|...)?\s*(feat\.|featuring|with)\s+[^)\-...]+\)?/gi, '')
RECURSIVE RemoveCredits(_)
CutCredit(s, k) ==
  IF k = 0 THEN s
  ELSE Take(s, CreditStart(s, k) - 1) \o RemoveCredits(Drop(s, CreditEnd(s, k)))

RemoveCredits(s) ==
  CutCredit(s, Leftmost({k \in 1..Len(s) :
                          s[k] \in CreditWords /\ CreditEnd(s, k) > 0}))

\* \b(live|acoustic|...)\b at index m
VersionWordAt(s, m) ==
  /\ m \in 1..Len(s)
  /\ s[m] \in VersionWords
  /\ (m = 1 \/ s[m - 1] \notin WordToks)
  /\ (m = Len(s) \/ s[m + 1] \notin WordToks)

\* the bracket that closes a descriptor opened at o: the first closing bracket
\* after o, when a version word stands between them; 0 otherwise
BracketClose(s, o, c) ==
  IF c <= Len(s) /\ \E m \in (o + 1)..(c - 1) : VersionWordAt(s, m) THEN c ELSE 0

BracketEnd(s, o) == BracketClose(s, o, RunEnd(s, o + 1, CloseToks) + 1)

\* s.replace(/\s*[\(\[\{][^\)\]\}]*\b(live|...)\b[^\)\]\}]*[\)\]\}]\s*/gi, ' ')
RECURSIVE RemoveBracketed(_)
CutBracketed(s, o, c) ==
  IF o = 0 THEN s
  ELSE Take(s, o - WSBefore(s, o) - 1) \o <<" ">>
         \o RemoveBracketed(Drop(s, c + WSAfter(s, c)))

FirstBracketed(s, o) == CutBracketed(s, o, IF o = 0 THEN 0 ELSE BracketEnd(s, o))

RemoveBracketed(s) ==
  FirstBracketed(s, Leftmost({o \in 1..Len(s) :
                               s[o] \in OpenToks /\ BracketEnd(s, o) > 0}))

\* s.replace(/\s*[-...|.]\s*\b(live|...)\b.*$/gi, ' ')
CutSuffix(s, d) ==
  IF d = 0 THEN s ELSE Take(s, d - WSBefore(s, d) - 1) \o <<" ">>

RemoveSuffix(s) ==
  CutSuffix(s, Leftmost({d \in 1..Len(s) :
                          s[d] \in DashToks /\ VersionWordAt(s, d + WSAfter(s, d) + 1)}))

\* s.replace(/[^a-z0-9\s']/g, ' ')
StripPunct(s) ==
  [i \in 1..Len(s) |->
     IF s[i] \in LetterToks \cup VersionWords \cup CreditWords \cup WS
       THEN s[i] ELSE " "]

\* s.replace(/\s{2,}/g, ' ')
RECURSIVE CollapseWS(_)
CollapseWS(s) ==
  IF s = <<>> THEN <<>>
  ELSE IF Head(s) \in WS /\ Len(s) > 1 /\ s[2] \in WS
         THEN <<" ">> \o CollapseWS(Drop(s, LeadWS(s)))
         ELSE <<Head(s)>> \o CollapseWS(Tail(s))

normalizeTitle(raw) ==
  IF raw = <<>> THEN <<>>
  ELSE trim(CollapseWS(StripPunct(
         RemoveSuffix(RemoveBracketed(RemoveCredits(toLowerCase(raw)))))))

-----------------------------------------------------------------------------
(* Track canonicaliser and mood key *)

\* truthiness of a track id written as its literal: 0, '' and undefined are falsy
Truthy(v) == v \notin {"0", "''", "undefined"}

\* t.artists is an array of names or one name
ArtistArray(names) == [kind |-> "array", items |-> names]
ArtistScalar(name) == [kind |-> "string", items |-> <<name>>]

\* (Array.isArray(t?.artists) ? t.artists[0] : t?.artists) || ''
primaryArtist(t) == IF t.artists.items = <<>> THEN <<>> ELSE t.artists.items[1]

\* a key joined with a blank instead of the delimiter
JoinBlank(artist, title) == IF title = <<>> THEN <<>> ELSE artist \o <<" ">> \o title

\* title ? `${artist}EM${title}` : ''
JoinKey(artist, title) == IF title = <<>> THEN <<>> ELSE artist \o <<"EM">> \o title

baseTrackKey(t) ==
  JoinKey(trim(toLowerCase(primaryArtist(t))), normalizeTitle(t.name))

moodKey(m, e) == toLowerCase(trim(m)) \o <<"_", "_">> \o trim(e)

\* the table MOOD_EMOJIS, one row
MOOD_EMOJIS == {[emoji |-> <<"E">>, label |-> <<"H">>]}

\* mood texts the user types or dictates
MoodTexts == {<<" ", "h">>, <<"H">>}

MoodKeys ==
  {moodKey(m, e) : m \in MoodTexts \cup {<<>>} \cup {r.label : r \in MOOD_EMOJIS},
                   e \in {<<>>} \cup {r.emoji : r \in MOOD_EMOJIS}}

\* tracks the upstream recommender returns
SongA == [id |-> "1", name |-> <<"a">>, artists |-> ArtistArray(<<<<"H">>>>)]

SongALive ==
  [id |-> "2", name |-> <<"A", " ", "(", "live", ")">>,
   artists |-> ArtistArray(<< <<"h", " ">>, <<"s">> >>)]

\* a track whose id is the number 0
SongB == [id |-> "0", name |-> <<"b">>, artists |-> ArtistScalar(<<"s">>)]

\* another track whose id is the number 0
SongBLive ==
  [id |-> "0", name |-> <<"b", " ", "-", " ", "live">>, artists |-> ArtistScalar(<<"h">>)]

\* the id of SongA under another title
SongD == [id |-> "1", name |-> <<"d">>, artists |-> ArtistArray(<<<<"h">>>>)]

\* a title that normalises to the empty string
Untitled == [id |-> "5", name |-> <<"(", "live", ")">>, artists |-> ArtistArray(<<>>)]

TrackUniverse == {SongA, SongALive, SongB, SongBLive, SongD, Untitled}

\* baseTrackKey of every track, computed once
KeyOf == [t \in TrackUniverse |-> baseTrackKey(t)]

\* data.tracks of one response: every list of up to MaxPool tracks
\* and the pool of a title, its live version and another title
ExamplePool == <<SongA, SongALive, SongB>>

Pools == UNION {[1..n -> TrackUniverse] : n \in 0..MaxPool} \cup {ExamplePool}

\* data.tracks of one response: the responses used where generates follow each other
Responses ==
  { <<>>,
    <<Untitled>>,
    <<SongA, SongALive, SongB>>,
    <<SongALive>>,
    <<SongBLive>>,
    <<SongD, SongB>> }

-----------------------------------------------------------------------------
(* History store: the localStorage item melo_seen_tracks_v2                *)
(*                                                                         *)
(* blob.kind is what the stored text is:                                   *)
(*   "null"      no item (getItem returns null)                            *)
(*   "corrupt"   text JSON.parse rejects                                   *)
(*   "falsy"     JSON null, 0, false or ""                                 *)
(*   "primitive" a JSON number, true or a non-empty string                 *)
(*   "array"     a JSON array                                              *)
(*   "object"    a JSON object; blob.obj maps its keys to entries          *)
(* An entry is a v1 list, a v2 record {keys, ids} or anything else.        *)
(***************************************************************************)

EmptyObj == [k \in {} |-> 0]

NullBlob == [kind |-> "null", obj |-> EmptyObj]

ObjectBlob(o) == [kind |-> "object", obj |-> o]

V1Entry(list) == [shape |-> "v1", keys |-> list, ids |-> <<>>]
V2Entry(keys, ids) == [shape |-> "v2", keys |-> keys, ids |-> ids]
OtherEntry == [shape |-> "other", keys |-> <<>>, ids |-> <<>>]

\* { keys: new Set(), ids: new Set() }: a Set is its elements in insertion order
EmptySeen == [keys |-> <<>>, ids |-> <<>>]

\* a load that forgets what is stored
LoadNothing(b, st, key) == EmptySeen

\* a load without the Array.isArray(entry) branch: a flat list reads as empty
LoadCurrentOnly(b, st, key) ==
  IF st = "unreadable" \/ b.kind # "object" THEN EmptySeen
  ELSE IF key \notin DOMAIN b.obj THEN EmptySeen
  ELSE IF b.obj[key].shape = "v2"
    THEN [keys |-> SetOrder(b.obj[key].keys), ids |-> SetOrder(b.obj[key].ids)]
  ELSE EmptySeen

\* storage is "ok", "unreadable" (getItem and setItem throw) or "quota" (setItem throws)
loadSeenForMood(b, st, key) ==
  IF st = "unreadable" THEN EmptySeen
  ELSE IF b.kind # "object" THEN EmptySeen
  ELSE IF key \notin DOMAIN b.obj THEN EmptySeen
  ELSE LET entry == b.obj[key] IN
       IF entry.shape = "v1" THEN [keys |-> SetOrder(entry.keys), ids |-> <<>>]
       ELSE IF entry.shape = "v2"
         THEN [keys |-> SetOrder(entry.keys), ids |-> SetOrder(entry.ids)]
       ELSE EmptySeen

\* slice(0, 800) in the place of slice(-800): the oldest entries are kept
StoredOldest(seen) == V2Entry(Take(seen.keys, Cap), Take(seen.ids, Cap))

\* obj[key] = { keys: keysList.slice(-800), ids: idsList.slice(-800) }
StoredEntry(seen) == V2Entry(SliceLast(seen.keys, Cap), SliceLast(seen.ids, Cap))

\* a save that writes an object holding this key alone
SaveAlone(b, st, key, seen) ==
  IF st # "ok" THEN b ELSE ObjectBlob(key :> StoredEntry(seen))

\* a save whose setItem never throws
SaveAnyway(b, st, key, seen) ==
  IF b.kind \in {"corrupt", "primitive", "array"} THEN b
  ELSE ObjectBlob((key :> StoredEntry(seen))
                    @@ (IF b.kind = "object" THEN b.obj ELSE EmptyObj))

\* a save that starts from an empty object when the stored item is of no use
SaveReset(b, st, key, seen) ==
  IF st # "ok" THEN b
  ELSE ObjectBlob((key :> StoredEntry(seen))
                  @@ (IF b.kind = "object" THEN b.obj ELSE EmptyObj))

\* the blob after saveSeenForMood(key, seen)
saveSeenForMood(b, st, key, seen) ==
  IF st # "ok" THEN b
  ELSE IF b.kind \in {"corrupt", "primitive", "array"} THEN b
  ELSE LET obj == IF b.kind = "object" THEN b.obj ELSE EmptyObj IN
       ObjectBlob((key :> StoredEntry(seen)) @@ obj)

-----------------------------------------------------------------------------
(* Playlist assembly: the steps of fetchPlaylist between its awaits *)

\* 1) de-dup similar versions by base key
KeysOf(tracks) == {KeyOf[u] : u \in Range(tracks)}

\* the loop without its seen.has(k) test
PushAlways(uniq, t, k) == IF k = <<>> THEN uniq ELSE Append(uniq, t)

\* the loop keeping the latest track of a key instead of the first
PushLatest(uniq, t, k) ==
  IF k = <<>> THEN uniq ELSE Append(SelectSeq(uniq, LAMBDA u : KeyOf[u] # k), t)

\* if (!k || seen.has(k)) continue; seen.add(k); uniq.push(t)
Push(uniq, t, k) == IF k = <<>> \/ k \in KeysOf(uniq) THEN uniq ELSE Append(uniq, t)

RECURSIVE Dedup(_)
Dedup(pool) ==
  IF pool = <<>> THEN <<>>
  ELSE Push(Dedup(Take(pool, Len(pool) - 1)), pool[Len(pool)], KeyOf[pool[Len(pool)]])

\* indices drawn from the whole list at every turn
JAnywhere(n) == [2..n -> 1..n]

\* a display that keeps the first track of each identifier
RECURSIVE FirstPerId(_)
FirstPerId(tracks) ==
  IF tracks = <<>> THEN <<>>
  ELSE LET r == FirstPerId(Take(tracks, Len(tracks) - 1)) IN
       IF tracks[Len(tracks)].id \in {u.id : u \in Range(r)} THEN r
       ELSE Append(r, tracks[Len(tracks)])

filteredById(pl) == IF pl.set THEN FirstPerId(pl.tracks) ELSE <<>>

\* filteredTracks: the cards rendered for playlist, deduplicated by baseTrackKey
filteredTracks(pl) == IF pl.set THEN Dedup(pl.tracks) ELSE <<>>

\* the values of j the loop can draw: js[i] in 1..i for i = Len(uniq) down to 2
JChoices(n) == {js \in [2..n -> 1..n] : \A i \in 2..n : js[i] <= i}

\* a swap that loses one of the two tracks
Overwrite(s, i, j) == [s EXCEPT ![i] = s[j]]

Swap(s, i, j) == [s EXCEPT ![i] = s[j], ![j] = s[i]]

\* 2) shuffle: the loop from index i down to 2
RECURSIVE ShuffleFrom(_, _, _)
ShuffleFrom(s, js, i) ==
  IF i < 2 THEN s ELSE ShuffleFrom(Swap(s, i, js[i]), js, i - 1)

Shuffle(s, js) == ShuffleFrom(s, js, Len(s))

RECURSIVE Filter(_, _)
Filter(s, keep) ==
  IF s = <<>> THEN <<>>
  ELSE IF Head(s) \in keep THEN <<Head(s)>> \o Filter(Tail(s), keep)
  ELSE Filter(Tail(s), keep)

\* a freshness test that looks at the canonical key alone
FreshByKey(t, seen) == KeyOf[t] \notin Range(seen.keys)

IsFresh(t, seen) ==
  KeyOf[t] \notin Range(seen.keys) /\ t.id \notin Range(seen.ids)

\* 3) prefer tracks not seen before for this mood
FreshOf(uniq, seen) == Filter(uniq, {t \in Range(uniq) : IsFresh(t, seen)})

\* the filter dropped: every candidate is returned
AlwaysUniq(fresh, uniq) == uniq

\* the waiver dropped: only fresh candidates are returned
NoWaiver(fresh, uniq) == fresh

\* fresh.length ? fresh : uniq
OrElse(fresh, uniq) == IF fresh # <<>> THEN fresh ELSE uniq

FinalOf(uniq, seen) == OrElse(FreshOf(uniq, seen), uniq)

\* Update seen registry with what we are about to show
\* an update that replaces the sets by the entry just shown
AddOnly(seen, t, k) ==
  [keys |-> IF k # <<>> THEN <<k>> ELSE seen.keys,
   ids |-> IF Truthy(t.id) THEN <<t.id>> ELSE seen.ids]

\* if (k) seenForMood.keys.add(k); if (t.id) seenForMood.ids.add(t.id)
AddShown(seen, t, k) ==
  [keys |-> IF k # <<>> THEN SetAdd(seen.keys, k) ELSE seen.keys,
   ids |-> IF Truthy(t.id) THEN SetAdd(seen.ids, t.id) ELSE seen.ids]

RECURSIVE RecordShown(_, _)
RecordShown(seen, tracks) ==
  IF tracks = <<>> THEN seen
  ELSE RecordShown(AddShown(seen, Head(tracks), KeyOf[Head(tracks)]), Tail(tracks))

-----------------------------------------------------------------------------
(* The application: one App component per open page, one shared store *)

Tabs == {"tab1", "tab2"}
MainTab == "tab1"

VARIABLES
  blob,           \* the stored history item
  storage,        \* how localStorage behaves: "ok", "unreadable", "quota"
  mood,           \* mood[p]: useState('') of the text field
  selectedEmoji,  \* selectedEmoji[p]
  loading,        \* loading[p]: the busy flag
  playlist,       \* playlist[p]: null or the displayed response
  pc,             \* pc[p]: where fetchPlaylist stands: "idle", "await1", "await2"
  run,            \* run[p]: the locals of the current or last fetchPlaylist call
  shown,          \* shown[key]: keys and ids of every list displayed so far
  truncated,      \* mood keys for which a save has dropped entries
  started,        \* number of generates started
  title,          \* a title and what normalizeTitle makes of it, once and twice
  pair,           \* two tracks and what baseTrackKey makes of each
  shuffled        \* a list, the indices the shuffle drew and the list it made of it

vars == <<blob, storage, mood, selectedEmoji, loading, playlist, pc, run,
          shown, truncated, started, title, pair, shuffled>>

\* no list is being shuffled
NoShuffle == [list |-> <<>>, js |-> <<>>, out |-> <<>>, n |-> 0]

\* no pair of tracks is being compared
NoPair == [a |-> <<>>, b |-> <<>>, ka |-> <<>>, kb |-> <<>>, n |-> 0]

\* no title is being normalised
NoTitle == [raw |-> <<>>, once |-> <<>>, twice |-> <<>>, n |-> 0]

NoPlaylist == [set |-> FALSE, tracks |-> <<>>]

\* the exclusion fields of a request body; a body without them carries none
Hints(ids, keys) == [exclude_ids |-> ids, exclude_keys |-> keys]

NoHints == Hints(<<>>, <<>>)

NoRun ==
  [ mood |-> <<>>, emoji |-> <<>>,
    key |-> <<>>, excludeIds |-> <<>>, excludeKeys |-> <<>>, requests |-> <<>>,
    seq |-> 0, answers |-> <<>>, loads |-> 0,
    pool |-> <<>>, deduped |-> <<>>, uniq |-> <<>>, seenForMood |-> EmptySeen,
    retry |-> "no", pool2 |-> <<>>, deduped2 |-> <<>>,
    finalTracks |-> <<>>, saved |-> EmptySeen, blobBefore |-> NullBlob,
    shownBefore |-> [keys |-> {}, ids |-> {}], evictedBefore |-> FALSE,
    outcome |-> "none" ]

\* what localStorage may hold when the page is opened
LegacyBlob ==
  ObjectBlob((<<"h", "_", "_">> :> V1Entry(<<<<"h", "EM", "a">>, <<"h", "EM", "a">>>>))
             @@ (<<"_", "_">> :> OtherEntry))

InitBlobs ==
  { NullBlob, LegacyBlob,
    [kind |-> "corrupt", obj |-> EmptyObj],
    [kind |-> "falsy", obj |-> EmptyObj],
    [kind |-> "primitive", obj |-> EmptyObj],
    [kind |-> "array", obj |-> EmptyObj] }

NothingShown == [k \in MoodKeys |-> [keys |-> {}, ids |-> {}]]

InitPages ==
  /\ mood = [p \in Tabs |-> <<>>]
  /\ selectedEmoji = [p \in Tabs |-> <<>>]
  /\ loading = [p \in Tabs |-> FALSE]
  /\ playlist = [p \in Tabs |-> NoPlaylist]
  /\ pc = [p \in Tabs |-> "idle"]
  /\ run = [p \in Tabs |-> NoRun]
  /\ started = 0

\* a store that works, empty or left by an earlier version of the application
Init ==
  /\ blob \in {NullBlob, LegacyBlob}
  /\ storage = "ok"
  /\ shown = NothingShown
  /\ truncated = {}
  /\ InitPages
  /\ title = NoTitle
  /\ pair = NoPair
  /\ shuffled = NoShuffle

\* onChange of the text field, or a speech recognition result
SetMood(p, text) ==
  /\ mood[p] # text
  /\ mood' = [mood EXCEPT ![p] = text]
  /\ UNCHANGED <<blob, storage, selectedEmoji, loading, playlist, pc, run,
                 shown, truncated, started, title, pair, shuffled>>

\* onClick of an emoji button
ClickEmoji(p, row) ==
  LET next == IF selectedEmoji[p] = row.emoji THEN <<>> ELSE row.emoji IN
  /\ selectedEmoji' = [selectedEmoji EXCEPT ![p] = next]
  /\ mood' = [mood EXCEPT ![p] = IF next # <<>> THEN row.label ELSE @]
  /\ UNCHANGED <<blob, storage, loading, playlist, pc, run, shown, truncated, started, title, pair, shuffled>>

\* buttons that stay enabled while loading
AlwaysEnabled(p) == TRUE

\* disabled={loading} on both buttons that call fetchPlaylist
CanGenerate(p) == ~loading[p] /\ pc[p] = "idle"

\* fetchPlaylist up to its first await; the buttons are disabled while loading
Generate(p, budget) ==
  /\ CanGenerate(p)
  /\ started < budget
  /\ started' = started + 1
  /\ loading' = [loading EXCEPT ![p] = TRUE]
  /\ playlist' = [playlist EXCEPT ![p] = NoPlaylist]
  /\ LET key == moodKey(mood[p], selectedEmoji[p]) IN
     run' = [run EXCEPT ![p] =
               [NoRun EXCEPT
                  !.mood = mood[p], !.emoji = selectedEmoji[p],
                  !.key = key, !.seq = started + 1, !.loads = 2,
                  !.excludeIds =
                     SliceLast(loadSeenForMood(blob, storage, key).ids, HintLimit),
                  !.excludeKeys =
                     SliceLast(loadSeenForMood(blob, storage, key).keys, HintLimit),
                  !.requests =
                     <<Hints(SliceLast(loadSeenForMood(blob, storage, key).ids, HintLimit),
                             SliceLast(loadSeenForMood(blob, storage, key).keys, HintLimit))>>]]
  /\ pc' = [pc EXCEPT ![p] = "await1"]
  /\ UNCHANGED <<blob, storage, mood, selectedEmoji, shown, truncated, title, pair, shuffled>>

\* a catch block that writes the loaded record back
FailedSaving(p, r) ==
  /\ run' = [run EXCEPT ![p] = [r EXCEPT !.outcome = "failed"]]
  /\ blob' = saveSeenForMood(blob, storage, r.key, r.seenForMood)
  /\ loading' = [loading EXCEPT ![p] = FALSE]
  /\ pc' = [pc EXCEPT ![p] = "idle"]
  /\ UNCHANGED <<storage, mood, selectedEmoji, playlist, shown, truncated, started,
                 title, pair, shuffled>>

\* a failure path without the finally block
FailedBusy(p, r) ==
  /\ run' = [run EXCEPT ![p] = [r EXCEPT !.outcome = "failed"]]
  /\ pc' = [pc EXCEPT ![p] = "idle"]
  /\ UNCHANGED <<blob, storage, mood, selectedEmoji, loading, playlist, shown, truncated,
                 started, title, pair, shuffled>>

\* catch (err) { alert } finally { setLoading(false) }
Failed(p, r) ==
  /\ run' = [run EXCEPT ![p] = [r EXCEPT !.outcome = "failed"]]
  /\ loading' = [loading EXCEPT ![p] = FALSE]
  /\ pc' = [pc EXCEPT ![p] = "idle"]
  /\ UNCHANGED <<blob, storage, mood, selectedEmoji, playlist, shown, truncated, started, title, pair, shuffled>>

\* the history update, saveSeenForMood, setPlaylist and the finally block
Display(p, r, seen, ks, is) ==
  /\ blob' = saveSeenForMood(blob, storage, r.key, seen)
  /\ playlist' = [playlist EXCEPT ![p] = [set |-> TRUE, tracks |-> r.finalTracks]]
  /\ run' = [run EXCEPT ![p] =
               [r EXCEPT !.saved = seen, !.blobBefore = blob,
                         !.shownBefore = shown[r.key],
                         !.evictedBefore = r.key \in truncated, !.outcome = "shown"]]
  /\ shown' = [shown EXCEPT ![r.key] =
                 [keys |-> @.keys \cup ks, ids |-> @.ids \cup is]]
  /\ truncated' = IF Len(seen.keys) > Cap \/ Len(seen.ids) > Cap
                    THEN truncated \cup {r.key} ELSE truncated
  /\ loading' = [loading EXCEPT ![p] = FALSE]
  /\ pc' = [pc EXCEPT ![p] = "idle"]
  /\ UNCHANGED <<storage, mood, selectedEmoji, started, title, pair, shuffled>>

Complete(p, r) ==
  Display(p, r, RecordShown(r.seenForMood, r.finalTracks),
          KeysOf(r.finalTracks), {t.id : t \in Range(r.finalTracks)})

\* the first fetch rejects, answers with a status that is not ok, or its body is not
\* an object
FirstFailed(p) ==
  /\ pc[p] = "await1"
  /\ Failed(p, [run[p] EXCEPT !.answers = <<"failed">>])

\* the first fetch resolves with data.tracks = pool
\* the locals of fetchPlaylist after steps 1) to 3)
Assembled(r, pool, deduped, uniq, seenForMood) ==
  [r EXCEPT !.answers = <<"ok">>, !.loads = @ + 1, !.pool = pool, !.deduped = deduped, !.uniq = uniq,
            !.seenForMood = seenForMood, !.finalTracks = FinalOf(uniq, seenForMood)]

\* if (!finalTracks.length) the second fetch is sent
Continue(p, r) ==
  IF r.finalTracks = <<>>
    THEN /\ run' = [run EXCEPT ![p] = [r EXCEPT !.retry = "sent",
                                                   !.requests = Append(@, NoHints)]]
         /\ pc' = [pc EXCEPT ![p] = "await2"]
         /\ UNCHANGED <<blob, storage, mood, selectedEmoji, loading, playlist,
                        shown, truncated, started, title, pair, shuffled>>
    ELSE Complete(p, r)

FirstShuffled(p, pool, deduped, js) ==
  Continue(p, Assembled(run[p], pool, deduped, Shuffle(deduped, js),
                        loadSeenForMood(blob, storage, run[p].key)))

FirstResolved(p, pool, js) ==
  /\ pc[p] = "await1"
  /\ FirstShuffled(p, pool, Dedup(pool), js)

\* the second fetch rejects, or its body is not an object
RetryFailed(p) ==
  /\ pc[p] = "await2"
  /\ Failed(p, [run[p] EXCEPT !.answers = Append(@, "failed")])

\* the second fetch answers with a status that is not ok: finalTracks stays empty
RetryNotOk(p) ==
  /\ pc[p] = "await2"
  /\ Complete(p, [run[p] EXCEPT !.retry = "notok", !.answers = Append(@, "notok")])

\* the second fetch resolves with data2.tracks = pool
RetryFiltered(uniq2, seenForMood) == FreshOf(uniq2, seenForMood)

\* finalTracks = uniq2
RetryFinal(uniq2, seenForMood) == uniq2

RetryShuffled(p, pool, deduped, js) ==
  Complete(p, [run[p] EXCEPT !.retry = "ok", !.answers = Append(@, "ok"),
                             !.pool2 = pool, !.deduped2 = deduped,
                             !.finalTracks = RetryFinal(Shuffle(deduped, js),
                                                        run[p].seenForMood)])

RetryResolved(p, pool, js) ==
  /\ pc[p] = "await2"
  /\ RetryShuffled(p, pool, Dedup(pool), js)

\* the page is reloaded: the component state is lost, the store is kept
Restart(p) ==
  /\ run[p] # NoRun
  /\ mood' = [mood EXCEPT ![p] = <<>>]
  /\ selectedEmoji' = [selectedEmoji EXCEPT ![p] = <<>>]
  /\ loading' = [loading EXCEPT ![p] = FALSE]
  /\ playlist' = [playlist EXCEPT ![p] = NoPlaylist]
  /\ pc' = [pc EXCEPT ![p] = "idle"]
  /\ run' = [run EXCEPT ![p] = NoRun]
  /\ UNCHANGED <<blob, storage, shown, truncated, started, title, pair, shuffled>>

Step(p, pools, budget) ==
  \/ \E text \in MoodTexts : SetMood(p, text)
  \/ \E row \in MOOD_EMOJIS : ClickEmoji(p, row)
  \/ Generate(p, budget)
  \/ FirstFailed(p)
  \/ \E pool \in pools : \E js \in JChoices(Len(Dedup(pool))) : FirstResolved(p, pool, js)
  \/ RetryFailed(p)
  \/ RetryNotOk(p)
  \/ \E pool \in pools : \E js \in JChoices(Len(Dedup(pool))) : RetryResolved(p, pool, js)
  \/ Restart(p)

\* one page and a store that works: generates follow each other
Next == Step(MainTab, Responses, MaxGenerates)

Spec == Init /\ [][Next]_vars

\* the store an earlier session leaves after it has displayed Dedup(pool) for key
After(key, tracks, seen) ==
  [ blob |-> saveSeenForMood(NullBlob, "ok", key, seen),
    shown |-> [NothingShown EXCEPT ![key] =
                 [keys |-> KeysOf(tracks), ids |-> {t.id : t \in Range(tracks)}]],
    truncated |-> IF Len(seen.keys) > Cap \/ Len(seen.ids) > Cap THEN {key} ELSE {} ]

EarlierSessions ==
  {After(<<"h", "_", "_">>, Dedup(pool), RecordShown(EmptySeen, Dedup(pool))) :
     pool \in Responses}

InitAssemble ==
  /\ \E a \in EarlierSessions :
        blob = a.blob /\ shown = a.shown /\ truncated = a.truncated
  /\ storage = "ok"
  /\ InitPages
  /\ title = NoTitle
  /\ pair = NoPair
  /\ shuffled = NoShuffle

\* one generate, for every response of up to MaxPool tracks
NextAssemble == Step(MainTab, Pools, 1)

SpecAssemble == InitAssemble /\ [][NextAssemble]_vars

\* two pages that share the store
TabResponses == {<<>>, <<SongA>>, <<SongB>>}

\* a page whose emoji buttons are left alone
StepTab(p, pools, budget) ==
  \/ \E text \in MoodTexts : SetMood(p, text)
  \/ Generate(p, budget)
  \/ FirstFailed(p)
  \/ \E pool \in pools : \E js \in JChoices(Len(Dedup(pool))) : FirstResolved(p, pool, js)
  \/ RetryFailed(p)
  \/ RetryNotOk(p)
  \/ \E pool \in pools : \E js \in JChoices(Len(Dedup(pool))) : RetryResolved(p, pool, js)
  \/ Restart(p)

NextTabs == \E p \in Tabs : StepTab(p, TabResponses, MaxGenerates)

SpecTabs == Init /\ [][NextTabs]_vars

\* the upstream answers the request page p is waiting for, in any of the ways it can
Answered(p, pools) ==
  \/ FirstFailed(p)
  \/ \E pool \in pools : \E js \in JChoices(Len(Dedup(pool))) : FirstResolved(p, pool, js)
  \/ RetryFailed(p)
  \/ RetryNotOk(p)
  \/ \E pool \in pools : \E js \in JChoices(Len(Dedup(pool))) : RetryResolved(p, pool, js)

\* one page whose upstream requests do not stay pending for ever: an answer is
\* possible exactly when the answer with an empty pool is
NextLive == Step(MainTab, TabResponses, MaxGenerates)

SpecLive == Init /\ [][NextLive]_vars /\ WF_vars(Answered(MainTab, {<<>>}))

\* a store of any content, and a localStorage that may fail
InitStore ==
  /\ blob \in InitBlobs
  /\ storage \in {"ok", "unreadable", "quota"}
  /\ shown = NothingShown
  /\ truncated = {}
  /\ InitPages
  /\ title = NoTitle
  /\ pair = NoPair
  /\ shuffled = NoShuffle

StoreResponses == {<<>>, <<SongA, SongB>>, <<SongALive>>}

NextStore == Step(MainTab, StoreResponses, MaxGenerates)

SpecStore == InitStore /\ [][NextStore]_vars

\* normalizeTitle alone: every title of up to MaxTitle characters and words
TitleToks == {"a", "A", " ", "(", ")", "-", "live", "with"}

Titles == UNION {[1..n -> TitleToks] : n \in 0..MaxTitle}

InitNormalize ==
  /\ blob = NullBlob
  /\ storage = "ok"
  /\ shown = NothingShown
  /\ truncated = {}
  /\ InitPages
  /\ title \in {[NoTitle EXCEPT !.raw = t] : t \in Titles}
  /\ pair = NoPair
  /\ shuffled = NoShuffle

\* normalizeTitle(raw)
Normalize ==
  /\ title.n = 0
  /\ title' = [title EXCEPT !.once = normalizeTitle(title.raw), !.n = 1]
  /\ UNCHANGED <<blob, storage, mood, selectedEmoji, loading, playlist, pc, run,
                 shown, truncated, started, pair, shuffled>>

\* normalizeTitle of what normalizeTitle returned
Renormalize ==
  /\ title.n = 1
  /\ title' = [title EXCEPT !.twice = normalizeTitle(title.once), !.n = 2]
  /\ UNCHANGED <<blob, storage, mood, selectedEmoji, loading, playlist, pc, run,
                 shown, truncated, started, pair, shuffled>>

NextNormalize == Normalize \/ Renormalize

SpecNormalize == InitNormalize /\ [][NextNormalize]_vars

\* baseTrackKey alone: two tracks whose artist may hold the delimiter
KeyArtists ==
  { ArtistArray(<<>>), ArtistArray(<<<<"h">>>>), ArtistScalar(<<"H", " ">>),
    ArtistScalar(<<"h", " ", "a">>), ArtistArray(<<<<"h", "EM", "a">>, <<"s">>>>),
    ArtistScalar(<<"h", "EM">>) }

KeyTitles ==
  { <<"a">>, <<"A", " ", "(", "live", ")">>, <<"a", "EM", "a">>, <<"a", " ", "a">>,
    <<"EM", "a">>, <<"(", "live", ")">> }

KeyTracks == {[id |-> "1", name |-> n, artists |-> x] : n \in KeyTitles, x \in KeyArtists}

InitKey ==
  /\ blob = NullBlob
  /\ storage = "ok"
  /\ shown = NothingShown
  /\ truncated = {}
  /\ InitPages
  /\ title = NoTitle
  /\ pair \in {[NoPair EXCEPT !.a = t, !.b = u] : t, u \in KeyTracks}
  /\ shuffled = NoShuffle

\* baseTrackKey of both tracks
Canonicalize ==
  /\ pair.n = 0
  /\ pair' = [pair EXCEPT !.ka = baseTrackKey(pair.a), !.kb = baseTrackKey(pair.b),
                          !.n = 1]
  /\ UNCHANGED <<blob, storage, mood, selectedEmoji, loading, playlist, pc, run,
                 shown, truncated, started, title, shuffled>>

NextKey == Canonicalize

SpecKey == InitKey /\ [][NextKey]_vars

\* the shuffle alone: every list of up to MaxShuffle different tracks
Lists ==
  UNION {{l \in [1..n -> TrackUniverse] : \A i, j \in 1..n : l[i] = l[j] => i = j} :
           n \in 0..MaxShuffle}

InitShuffle ==
  /\ blob = NullBlob
  /\ storage = "ok"
  /\ shown = NothingShown
  /\ truncated = {}
  /\ InitPages
  /\ title = NoTitle
  /\ pair = NoPair
  /\ shuffled \in {[NoShuffle EXCEPT !.list = l] : l \in Lists}

\* the loop of the shuffle with the indices js drawn by Math.random
Shuffling(js) ==
  /\ shuffled.n = 0
  /\ shuffled' = [shuffled EXCEPT !.js = js, !.out = Shuffle(shuffled.list, js), !.n = 1]
  /\ UNCHANGED <<blob, storage, mood, selectedEmoji, loading, playlist, pc, run,
                 shown, truncated, started, title, pair>>

NextShuffle == \E js \in JChoices(Len(shuffled.list)) : Shuffling(js)

SpecShuffle == InitShuffle /\ [][NextShuffle]_vars

-----------------------------------------------------------------------------
(* Properties.  run[p] holds the locals of the last fetchPlaylist call of    *)
(* page p; the call has returned a list when its outcome is "shown".        *)

Returned(p) == run[p].outcome = "shown"

\* the deduplicated candidates of the first pool that are fresh for the loaded record
FreshCandidates(r) ==
  {t \in Range(r.deduped) :
     KeyOf[t] \notin Range(r.seenForMood.keys) /\ t.id \notin Range(r.seenForMood.ids)}

\* the stored entry of key in blob b
NoEntry == [shape |-> "none", keys |-> <<>>, ids |-> <<>>]

EntryOf(b, key) ==
  IF b.kind = "object" /\ key \in DOMAIN b.obj THEN b.obj[key] ELSE NoEntry

\* C1: over successive generates for one mood key (restarts included, working store,
\* no entry evicted), a track whose canonical key or identifier was returned before
\* is not returned again, unless no candidate of the first pool is fresh.
C1_NoRepeat ==
  \A p \in Tabs :
    (Returned(p) /\ ~run[p].evictedBefore /\ FreshCandidates(run[p]) # {})
      => \A t \in Range(run[p].finalTracks) :
           /\ KeyOf[t] \notin run[p].shownBefore.keys
           /\ t.id # "undefined" => t.id \notin run[p].shownBefore.ids

\* C2: in every list a generate returns, from the first pool or from the retry pool,
\* every track has a non-empty canonical key and no two tracks share one.
C2_UniqueKeys ==
  \A p \in Tabs :
    Returned(p) =>
      /\ \A i \in 1..Len(run[p].finalTracks) : KeyOf[run[p].finalTracks[i]] # <<>>
      /\ \A i, j \in 1..Len(run[p].finalTracks) :
           i # j => KeyOf[run[p].finalTracks[i]] # KeyOf[run[p].finalTracks[j]]
      /\ Cardinality({KeyOf[t] : t \in Range(run[p].finalTracks)})
           = Len(run[p].finalTracks)

\* a retry pool with versions of one song, returned as a single track
C2_Witness ==
  \E p \in Tabs :
    /\ Returned(p)
    /\ run[p].retry = "ok"
    /\ Len(run[p].pool2) > Len(run[p].finalTracks)
    /\ run[p].finalTracks # <<>>

ExactlyFresh(final, fresh) ==
  fresh # {} => Range(final) = fresh /\ Len(final) = Cardinality(fresh)

\* C3: when a deduplicated candidate of the first pool is fresh, the returned list is
\* exactly the fresh candidates, each of them once.
C3_ExactlyFresh ==
  \A p \in Tabs :
    Returned(p) => ExactlyFresh(run[p].finalTracks, FreshCandidates(run[p]))

\* a fresh candidate is returned and a seen candidate is held back
C3_Witness ==
  \E p \in Tabs :
    /\ Returned(p)
    /\ run[p].finalTracks # <<>>
    /\ Len(run[p].finalTracks) < Len(run[p].deduped)
    /\ \E t \in Range(run[p].deduped) :
         KeyOf[t] \notin Range(run[p].seenForMood.keys)
           /\ t.id \in Range(run[p].seenForMood.ids)

\* C4 as the specification words it: when the record holds the key K of a track of the
\* pool and another track of the pool has a different key, the track is not returned.
C4_Original ==
  \A p \in Tabs :
    (Returned(p) /\ run[p].retry = "no") =>
      \A t \in Range(run[p].pool) :
        ( /\ KeyOf[t] \in Range(run[p].seenForMood.keys)
          /\ \E u \in Range(run[p].pool) : KeyOf[u] # <<>> /\ KeyOf[u] # KeyOf[t] )
          => t \notin Range(run[p].finalTracks)

\* C4: a track whose canonical key is in the loaded record is returned only when no
\* deduplicated candidate of the first pool is fresh.
C4_FreshnessBias ==
  \A p \in Tabs :
    Returned(p) =>
      \A t \in Range(run[p].finalTracks) :
        KeyOf[t] \in Range(run[p].seenForMood.keys) => FreshCandidates(run[p]) = {}

\* a track with a seen key stays out of a list that is not empty
C4_Witness ==
  \E p \in Tabs :
    /\ Returned(p)
    /\ run[p].retry = "no"
    /\ run[p].finalTracks # <<>>
    /\ \E t \in Range(run[p].deduped) :
         /\ KeyOf[t] \in Range(run[p].seenForMood.keys)
         /\ t \notin Range(run[p].finalTracks)

\* the record holds every canonical key present in the first pool
AllSeen(r) ==
  \A t \in Range(r.pool) : KeyOf[t] = <<>> \/ KeyOf[t] \in Range(r.seenForMood.keys)

\* C5 as the specification words it: when the record holds every canonical key of the
\* pool, the returned list is not empty and equals the deduplicated pool as a set.
C5_Original ==
  \A p \in Tabs :
    (Returned(p) /\ AllSeen(run[p])) =>
      /\ run[p].finalTracks # <<>>
      /\ Range(run[p].finalTracks) = Range(run[p].deduped)

\* C5: when the record holds every canonical key of the pool and some track of the
\* pool has a canonical key, the list comes from the first pool, is not empty, and is
\* the deduplicated pool, each candidate once.
C5_Exhaustion ==
  \A p \in Tabs :
    (Returned(p) /\ AllSeen(run[p]) /\ \E t \in Range(run[p].pool) : KeyOf[t] # <<>>)
      => /\ run[p].retry = "no"
         /\ run[p].finalTracks # <<>>
         /\ Range(run[p].finalTracks) = Range(run[p].deduped)
         /\ Len(run[p].finalTracks) = Len(run[p].deduped)

\* two songs, both seen before, are both returned
C5_Witness ==
  \E p \in Tabs :
    /\ Returned(p)
    /\ AllSeen(run[p])
    /\ Len(run[p].finalTracks) = 2
    /\ run[p].seenForMood.keys # <<>>

\* kept holds the newest entries of all, at most Cap of them, in the order of all
Newest(kept, all) ==
  /\ Len(kept) = IF Len(all) > Cap THEN Cap ELSE Len(all)
  /\ \A i \in 1..Len(kept) : kept[i] = all[Len(all) - Len(kept) + i]

Prefix(old, all) ==
  Len(old) <= Len(all) /\ \A i \in 1..Len(old) : old[i] = all[i]

\* C6: every record a save has written holds at most Cap keys and Cap identifiers, and
\* they are the most recently added entries, oldest first, of the set that was saved.
C6_Cap ==
  /\ \A k \in MoodKeys :
       EntryOf(blob, k).shape = "v2" =>
         Len(EntryOf(blob, k).keys) <= Cap /\ Len(EntryOf(blob, k).ids) <= Cap
  /\ \A p \in Tabs :
       Returned(p) =>
         /\ Prefix(run[p].seenForMood.keys, run[p].saved.keys)
         /\ Prefix(run[p].seenForMood.ids, run[p].saved.ids)
         /\ Newest(EntryOf(blob, run[p].key).keys, run[p].saved.keys)
         /\ Newest(EntryOf(blob, run[p].key).ids, run[p].saved.ids)

\* more than Cap keys were in the set when it was saved
C6_Witness ==
  \E p \in Tabs : Returned(p) /\ Len(run[p].saved.keys) > Cap

\* x is among the entries of all that slice(-Cap) drops
Evicted(x, all) ==
  Len(all) > Cap /\ \E i \in 1..(Len(all) - Cap) : all[i] = x

KeptOrEvicted(old, new, all) ==
  \A x \in Range(old) : x \in Range(new) \/ Evicted(x, all)

SameMood(a, b) == toLowerCase(trim(a)) = toLowerCase(trim(b))

\* a step changes the record of key k only when it completes a generate for k
Frame ==
  \A k \in MoodKeys :
    EntryOf(blob', k) # EntryOf(blob, k) =>
      \E p \in Tabs : pc[p] # "idle" /\ Returned(p)' /\ run'[p].key = k

\* C8: a generate leaves the record of every other mood key unchanged, whatever other
\* generates are in flight, and requests whose mood texts differ only in letter case
\* or surrounding whitespace, with the same emoji, use the same mood key.
C8_Partition ==
  [][ /\ Frame
      /\ \A p, q \in Tabs :
           ( /\ run[p] # NoRun /\ run[q] # NoRun
             /\ SameMood(run[p].mood, run[q].mood) /\ run[p].emoji = run[q].emoji )
             => run[p].key = run[q].key ]_vars

\* two pages have generated for "H" and " h"; the record of the empty mood is untouched
C8_Witness ==
  /\ \A p \in Tabs : Returned(p) /\ run[p].finalTracks # <<>>
  /\ run["tab1"].mood # run["tab2"].mood
  /\ run["tab1"].key = run["tab2"].key
  /\ EntryOf(blob, <<"_", "_">>) = OtherEntry

\* C9: after a generate has returned (working store, no entry evicted), the stored
\* record holds the canonical key of every returned track and the identifier of every
\* returned track that has one.
C9_Recorded ==
  \A p \in Tabs :
    (Returned(p) /\ run[p].key \notin truncated) =>
      \A t \in Range(run[p].finalTracks) :
        /\ KeyOf[t] \in Range(EntryOf(blob, run[p].key).keys)
        /\ t.id # "undefined" => t.id \in Range(EntryOf(blob, run[p].key).ids)

\* the item holds a record for the key and the storage can be read
Readable(b, st, key) ==
  st # "unreadable" /\ EntryOf(b, key).shape \in {"v1", "v2"}

\* loaded is the stored record of key, or the empty record when there is none to read
LoadedFrom(loaded, b, st, key) ==
  /\ Len(loaded.keys) = Cardinality(Range(loaded.keys))
  /\ Len(loaded.ids) = Cardinality(Range(loaded.ids))
  /\ IF Readable(b, st, key)
       THEN /\ Range(loaded.keys) = Range(EntryOf(b, key).keys)
            /\ Range(loaded.ids) = Range(EntryOf(b, key).ids)
       ELSE loaded = EmptySeen

\* C10: the load of a generate yields the stored record of the mood key, and the empty
\* record when no item is stored, the key has no entry, the read fails, or the item is
\* corrupt or of an unexpected shape; the generate goes on in each of these cases.
C10_Load ==
  \A p \in Tabs :
    /\ pc[p] = "await2" => LoadedFrom(run[p].seenForMood, blob, storage, run[p].key)
    /\ Returned(p) =>
         LoadedFrom(run[p].seenForMood, run[p].blobBefore, storage, run[p].key)

\* a generate has returned tracks over an item that JSON.parse rejects
C10_Witness ==
  \E p \in Tabs :
    /\ Returned(p)
    /\ run[p].blobBefore.kind = "corrupt"
    /\ run[p].seenForMood = EmptySeen
    /\ run[p].finalTracks # <<>>


\* what loaded must be when the stored entry is a flat list or a {keys, ids} record
CrossSchema(loaded, entry) ==
  /\ entry.shape = "v1" =>
       /\ Range(loaded.keys) = Range(entry.keys)
       /\ Len(loaded.keys) = Cardinality(Range(entry.keys))
       /\ loaded.ids = <<>>
  /\ entry.shape = "v2" => loaded.keys = entry.keys /\ loaded.ids = entry.ids

\* C11: with a storage that can be read, loading a key whose entry is a legacy flat
\* list yields exactly the entries of the list as keys and no identifiers; loading an
\* entry of the current shape yields its keys list and its ids list.
C11_CrossSchema ==
  \A p \in Tabs :
    storage # "unreadable" =>
      /\ pc[p] = "await2" => CrossSchema(run[p].seenForMood, EntryOf(blob, run[p].key))
      /\ Returned(p) =>
           CrossSchema(run[p].seenForMood, EntryOf(run[p].blobBefore, run[p].key))

\* a generate has loaded a flat list: keys without identifiers
C11_Witness ==
  \E p \in Tabs :
    /\ Returned(p)
    /\ storage = "ok"
    /\ EntryOf(run[p].blobBefore, run[p].key).shape = "v1"
    /\ run[p].seenForMood.keys # <<>>
    /\ run[p].seenForMood.ids = <<>>


\* saveSeenForMood throws inside its try block: getItem or setItem fails, JSON.parse
\* rejects the item, or the property cannot be set on a primitive
SaveThrows(b, st) == st # "ok" \/ b.kind \in {"corrupt", "primitive"}

\* C12: when the save of a generate fails, the generate still completes: the busy flag
\* is cleared, the list assembled before the save is displayed (with a storage that
\* reads but does not write, the list a working store gives), and the stored item is
\* left as it was.
C12_SaveSwallowed ==
  \A p \in Tabs :
    (Returned(p) /\ SaveThrows(run[p].blobBefore, storage)) =>
      /\ blob = run[p].blobBefore
      /\ ~loading[p] /\ pc[p] = "idle"
      /\ playlist[p] = [set |-> TRUE, tracks |-> run[p].finalTracks]
      /\ ExactlyFresh(run[p].finalTracks, FreshCandidates(run[p]))
      /\ (run[p].retry = "no" /\ FreshCandidates(run[p]) = {})
           => run[p].finalTracks = run[p].uniq
      /\ storage = "quota" =>
           run[p].seenForMood = loadSeenForMood(run[p].blobBefore, "ok", run[p].key)

\* the quota is exceeded, and a filtered list is displayed all the same
C12_Witness ==
  \E p \in Tabs :
    /\ Returned(p)
    /\ storage = "quota"
    /\ run[p].blobBefore.kind = "object"
    /\ playlist[p].tracks # <<>>
    /\ Len(playlist[p].tracks) < Len(run[p].deduped)


\* the second request of a run is issued by this step
RetrySent(p) == Len(run[p].requests) < 2 /\ Len(run'[p].requests) = 2

Permutation(s, t) == Range(s) = Range(t) /\ Len(s) = Len(t)

RetrySequencing(p) ==
  /\ Len(run'[p].requests) <= 2
  /\ RetrySent(p) =>
       /\ pc[p] = "await1" /\ Len(run[p].requests) = 1
       /\ run'[p].finalTracks = <<>>
       /\ run'[p].requests[2] = NoHints
  /\ (run'[p].retry = "no") = (Len(run'[p].requests) < 2)
  /\ (run'[p].outcome = "shown" /\ run'[p].retry = "ok") =>
       Permutation(run'[p].finalTracks, run'[p].deduped2)

\* C13: the second upstream request of a generate is issued only by the step that
\* resolves the first one and only when the list built from the first pool is empty;
\* it carries no exclusion hints; its deduplicated and shuffled result is the final
\* list, unfiltered; no generate issues more than two requests.
C13_RetrySequencing == [][\A p \in Tabs : RetrySequencing(p)]_vars

\* a retry returned a track that the loaded record already held
C13_Witness ==
  \E p \in Tabs :
    /\ Returned(p) /\ run[p].retry = "ok" /\ Len(run[p].requests) = 2
    /\ \E t \in Range(run[p].finalTracks) : KeyOf[t] \in Range(run[p].seenForMood.keys)


\* the pool the returned list was built from
SourcePool(r) == IF r.retry = "ok" THEN r.pool2 ELSE r.pool

NoTwice(s) == \A i, j \in 1..Len(s) : s[i] = s[j] => i = j

SubsetOfPool(final, pool) ==
  /\ Range(final) \subseteq Range(pool)
  /\ Len(final) <= Len(pool)
  /\ NoTwice(final)

\* C14: the displayed list holds only tracks of the pool it was built from (the first
\* pool, or the second one after a retry), each of them unaltered and at most once,
\* and is never longer than that pool.
C14_SubsetOfPool ==
  \A p \in Tabs :
    Returned(p) =>
      /\ playlist[p] = [set |-> TRUE, tracks |-> run[p].finalTracks]
      /\ SubsetOfPool(playlist[p].tracks, SourcePool(run[p]))

\* a non-empty list shorter than its pool is displayed
C14_Witness ==
  \E p \in Tabs :
    /\ Returned(p) /\ playlist[p].tracks # <<>>
    /\ Len(playlist[p].tracks) < Len(SourcePool(run[p]))


\* position i holds the first track of pool with its key, and the key is not empty
FirstOfKey(pool, i) ==
  /\ KeyOf[pool[i]] # <<>>
  /\ \A j \in 1..(i - 1) : KeyOf[pool[j]] # KeyOf[pool[i]]

\* the n-th smallest member of a set of positions
Nth(idx, n) == CHOOSE i \in idx : Cardinality({j \in idx : j <= i}) = n

\* the tracks of pool at the positions idx, in pool order
AtPositions(pool, idx) == [n \in 1..Cardinality(idx) |-> pool[Nth(idx, n)]]

FirstPerKey(pool) == AtPositions(pool, {i \in 1..Len(pool) : FirstOfKey(pool, i)})

\* C15: deduplication keeps, in pool order, the first track of the raw pool for each
\* non-empty canonical key and drops later tracks of a kept key and tracks with an
\* empty key; of the pool [a by h, a (live) by h, b by s] exactly the first and the
\* third track remain.
C15_FirstPerKey ==
  \A p \in Tabs :
    /\ run[p].deduped = FirstPerKey(run[p].pool)
    /\ run[p].deduped2 = FirstPerKey(run[p].pool2)
    /\ run[p].pool = ExamplePool => run[p].deduped = <<SongA, SongB>>

\* the example pool was deduplicated
C15_Witness ==
  \E p \in Tabs : run[p].pool = ExamplePool /\ Len(run[p].deduped) = 2


\* this step is a call of fetchPlaylist in page p
Starts(p) ==
  /\ started' # started
  /\ pc'[p] = "await1"
  /\ \A q \in Tabs \ {p} : run'[q] = run[q] /\ pc'[q] = pc[q] /\ loading'[q] = loading[q]

InFlight(p) == pc[p] # "idle"

OnePerPage(p) ==
  /\ Starts(p) => ~InFlight(p) /\ ~loading[p]
  /\ loading'[p] = InFlight(p)'

\* C16 as stated: at most one generate is in flight at any time
C16_Original == Cardinality({p \in Tabs : InFlight(p)}) <= 1

\* C16: in one page no generate starts while another generate of that page is in
\* flight, and the busy flag of the page is set exactly while its generate is in flight.
C16_OnePerPage == [][\A p \in Tabs : OnePerPage(p)]_vars

\* a generate has loaded and not yet saved, and the budget would allow another one
C16_Witness ==
  \E p \in Tabs : pc[p] = "await2" /\ loading[p] /\ started < MaxGenerates


\* the generate of page p ends in this step with its list displayed
Arrives(p) == InFlight(p) /\ run'[p].outcome = "shown" /\ run'[p].seq = run[p].seq

\* a generate was issued after the one of page p, which has not resolved yet
Superseded(p) == InFlight(p) /\ \E q \in Tabs : run[q].seq > run[p].seq

Discarded(p) == playlist'[p] = playlist[p] /\ blob' = blob

\* C17: the result of a generate that was followed by a newer generate before it
\* resolved is discarded on arrival: it is not displayed and nothing is saved.
C17_LastRequestWins == [][\A p \in Tabs : (Superseded(p) /\ Arrives(p)) => Discarded(p)]_vars

\* a generate is in flight while a newer one has been issued
C17_Witness == \E p \in Tabs : Superseded(p)


\* the generate of page p has ended with the alert and no list displayed
NoResult(p) == run[p].outcome = "failed"

BothFailed(r) == Len(r.answers) = 2 /\ r.answers[1] # "ok" /\ r.answers[2] # "ok"

\* C18: a generate ends without a displayed result only if its first and its second
\* upstream request both failed.
C18_OnlyBothFailed == \A p \in Tabs : NoResult(p) => BothFailed(run[p])

\* a generate ended without a result after a single request
C18_Witness == \E p \in Tabs : NoResult(p) /\ run[p].answers = <<"failed">>


\* the entries of a stored list as a set in insertion order: first occurrences
Distinct(list) ==
  AtPositions(list, {i \in 1..Len(list) : \A j \in 1..(i - 1) : list[j] # list[i]})

\* h is the last n entries of all, in order, or all of them when there are at most n
MostRecent(h, all, n) ==
  /\ Len(h) = IF Len(all) > n THEN n ELSE Len(all)
  /\ \A i \in 1..Len(h) : h[i] = all[Len(all) - Len(h) + i]

HintsOf(body, entry) ==
  /\ MostRecent(body.exclude_keys, Distinct(entry.keys), HintLimit)
  /\ MostRecent(body.exclude_ids, Distinct(entry.ids), HintLimit)

\* C19: the first request of a generate carries, for the keys and for the identifiers
\* of the stored record of its mood key, the HintLimit most recently added entries in
\* insertion order, and all entries when there are at most HintLimit.
C19_Hints ==
  \A p \in Tabs :
    pc[p] = "await1" =>
      /\ Len(run[p].requests) = 1
      /\ HintsOf(run[p].requests[1], EntryOf(blob, run[p].key))

\* a first request is in flight for a record that holds more keys than the limit
C19_Witness ==
  \E p \in Tabs :
    /\ pc[p] = "await1"
    /\ Len(EntryOf(blob, run[p].key).keys) > HintLimit
    /\ Len(run[p].requests[1].exclude_keys) = HintLimit
    /\ run[p].requests[1].exclude_ids # <<>>


\* C20: normalizeTitle applied to what normalizeTitle returned gives it back.
C20_Idempotent == title.n = 2 => title.twice = title.once

\* a title has been normalised twice and the first result was not empty
C20_Witness == title.n = 2 /\ title.once # <<>>


\* the lowercased, trimmed primary artist of a track
ArtistOf(t) == trim(toLowerCase(primaryArtist(t)))

SameSong(a, b) == ArtistOf(a) = ArtistOf(b) /\ normalizeTitle(a.name) = normalizeTitle(b.name)

Titled(t) == normalizeTitle(t.name) # <<>>

\* C21: two tracks with non-empty normalised titles get the same canonical key exactly
\* when their lowercased, trimmed primary artists are equal and their normalised
\* titles are equal, also when an artist name holds the delimiter.
C21_Injective ==
  (pair.n = 1 /\ Titled(pair.a) /\ Titled(pair.b)) =>
    ((pair.ka = pair.kb) = SameSong(pair.a, pair.b))

\* an artist name holds the delimiter, and two different tracks share one key
C21_Witness ==
  /\ pair.n = 1 /\ pair.a # pair.b /\ pair.ka = pair.kb /\ pair.ka # <<>>
  /\ "EM" \in Range(ArtistOf(pair.a))


\* the generate of page p fails in this step
Fails(p) == InFlight(p) /\ run'[p].outcome = "failed"

FailureLeaves(p) ==
  /\ (InFlight(p) /\ run'[p].outcome # "shown") => blob' = blob
  /\ Fails(p) => /\ playlist'[p] = NoPlaylist
                 /\ ~loading'[p]
                 /\ pc'[p] = "idle"

\* C22: from its start to its failure a failing generate writes nothing to the store;
\* when it has failed no playlist is displayed and the busy flag is cleared.
C22_FailureLeaves == [][\A p \in Tabs : FailureLeaves(p)]_vars

\* a retry was rejected while the store held history for the mood key
C22_Witness ==
  \E p \in Tabs :
    /\ NoResult(p) /\ Len(run[p].answers) = 2 /\ ~loading[p]
    /\ EntryOf(blob, run[p].key).keys # <<>>


\* the set s with the entries added, as a set
Plus(s, added) == Range(s) \cup added

LoadedPlusFinal(r) ==
  /\ Range(r.saved.keys) = Plus(r.seenForMood.keys, KeysOf(r.finalTracks) \ {<<>>})
  /\ Range(r.saved.ids) = Plus(r.seenForMood.ids, {t.id : t \in Range(r.finalTracks)})

\* C23: a generate that has displayed its list has loaded the store once, and the
\* record it wrote is the loaded record plus the keys and identifiers of the final list.
C23_LoadOnce == \A p \in Tabs : Returned(p) => run[p].loads = 1 /\ LoadedPlusFinal(run[p])

\* a generate has displayed its list after loading the store three times
C23_Witness == \E p \in Tabs : Returned(p) /\ run[p].loads = 3 /\ run[p].finalTracks # <<>>


\* both attempts of the generate of page p ended without a track
BothEmpty(p) ==
  /\ run[p].outcome # "none" /\ run[p].retry \in {"ok", "notok"}
  /\ run[p].finalTracks = <<>>

\* the page shows a playlist without tracks, as after any successful generate
SilentlyEmpty(p) == playlist[p] = [set |-> TRUE, tracks |-> <<>>] /\ Returned(p)

\* C24: when the first pool and the retry pool both yield no track, or the retry
\* response is not ok, the generate does not end by returning an empty list as if it
\* had succeeded.
C24_EmptySignal == \A p \in Tabs : BothEmpty(p) => ~SilentlyEmpty(p)

\* a retry answered not-ok and an empty playlist is displayed
C24_Witness == \E p \in Tabs : run[p].retry = "notok" /\ SilentlyEmpty(p)


\* the position of x in a list without repetitions
IndexOf(s, x) == CHOOSE i \in 1..Len(s) : s[i] = x

\* after keeps the entries of before that it still holds in their order, ahead of
\* every entry that before did not hold, and the entries it dropped are the oldest
Fifo(before, after) ==
  /\ \A i, j \in 1..Len(before) :
       (i < j /\ before[i] \in Range(after) /\ before[j] \in Range(after)) =>
         IndexOf(after, before[i]) < IndexOf(after, before[j])
  /\ \A x \in Range(before) \cap Range(after) : \A y \in Range(after) \ Range(before) :
       IndexOf(after, x) < IndexOf(after, y)
  /\ \A i, j \in 1..Len(before) :
       (i < j /\ before[j] \notin Range(after)) => before[i] \notin Range(after)

\* a returned track whose key and identifier the stored entry already held
ShownAgain(r) ==
  \E t \in Range(r.finalTracks) :
    /\ KeyOf[t] \in Range(EntryOf(r.blobBefore, r.key).keys)
    /\ t.id \in Range(EntryOf(r.blobBefore, r.key).ids)

\* C25: a generate leaves the stored keys and identifiers of its mood key in their
\* order of first insertion, also those of tracks it returned again; new entries come
\* after them and the entries dropped are the oldest ones.
C25_Fifo ==
  \A p \in Tabs :
    Returned(p) =>
      /\ Fifo(Distinct(EntryOf(run[p].blobBefore, run[p].key).keys),
              EntryOf(blob, run[p].key).keys)
      /\ Fifo(Distinct(EntryOf(run[p].blobBefore, run[p].key).ids),
              EntryOf(blob, run[p].key).ids)

\* a track recorded first of two was returned again and is still stored first
C25_Witness ==
  \E p \in Tabs :
    /\ Returned(p) /\ ShownAgain(run[p])
    /\ Len(EntryOf(run[p].blobBefore, run[p].key).keys) > 1
    /\ \E t \in Range(run[p].finalTracks) :
         EntryOf(blob, run[p].key).keys[1] = KeyOf[t]


\* every arrangement of the tracks of a list
Arrangements(list) ==
  {[i \in 1..Len(list) |-> list[f[i]]] :
     f \in {g \in [1..Len(list) -> 1..Len(list)] :
              \A i, j \in 1..Len(list) : g[i] = g[j] => i = j}}

\* the sequences of drawn indices that turn list into out
Draws(list, out) == {js \in JChoices(Len(list)) : Shuffle(list, js) = out}

\* C26: the shuffle returns an arrangement of the list it was given, every arrangement
\* of the list is the result of exactly one sequence of drawn indices, and the
\* sequence drawn is that one.
C26_Shuffle ==
  /\ shuffled.n = 1 => /\ shuffled.out \in Arrangements(shuffled.list)
                       /\ Draws(shuffled.list, shuffled.out) = {shuffled.js}
  /\ \A a \in Arrangements(shuffled.list) : Cardinality(Draws(shuffled.list, a)) = 1

\* three tracks were shuffled into another order
C26_Witness ==
  shuffled.n = 1 /\ Len(shuffled.list) = 3 /\ shuffled.out # shuffled.list


\* the stored entry of the mood key holds the keys of the list page p displayed
KeysStored(p) ==
  (KeysOf(run[p].finalTracks) \ {<<>>}) \subseteq Range(EntryOf(blob, run[p].key).keys)

\* p and q have both displayed a list for one mood key and nothing was evicted
BothReturned(p, q) ==
  /\ p # q /\ Returned(p) /\ Returned(q)
  /\ run[p].key = run[q].key /\ run[p].key \notin truncated

\* C27: after two pages have each completed a generate for one mood key, overlapping
\* or not, the stored record holds the keys of both displayed lists while under the cap.
C27_NoLostUpdate ==
  \A p, q \in Tabs : BothReturned(p, q) => KeysStored(p) /\ KeysStored(q)

\* two generates of one mood key overlapped, one of them on the retry path
C27_Witness ==
  \E p, q \in Tabs :
    /\ BothReturned(p, q) /\ run[p].retry = "ok" /\ run[p].seq < run[q].seq
    /\ run[q].finalTracks # <<>> /\ ~KeysStored(q)


\* C28: whenever the busy flag of a page is set, it is cleared later and the page can
\* start a generate again, given that every upstream request is answered.
C28_BusyCleared == \A p \in Tabs : loading[p] ~> (~loading[p] /\ pc[p] = "idle")

\* a generate has failed and the page is ready for the next one
C28_Witness == \E p \in Tabs : NoResult(p) /\ CanGenerate(p) /\ started > 0


\* items that JSON.parse rejects or turns into a value that takes no property
Unusable == {"corrupt", "primitive", "array"}

\* items that are present and do not parse to an object
NotAnObject == Unusable \cup {"falsy"}

StuckWith(kinds) ==
  /\ blob.kind \in kinds => blob' = blob
  /\ \A p \in Tabs :
       (blob.kind \in kinds /\ InFlight(p) /\ run'[p].outcome = "shown") =>
         /\ playlist'[p] = [set |-> TRUE, tracks |-> run'[p].finalTracks]
         /\ run'[p].seenForMood = EmptySeen
         /\ ~loading'[p]

KeysAdded(r) == Range(r.saved.keys) \ Range(r.seenForMood.keys)

DisplayedIsRecorded(cards, r) ==
  /\ cards = r.finalTracks
  /\ KeysOf(cards) \subseteq Range(r.saved.keys)
  /\ KeysAdded(r) \subseteq KeysOf(cards)

\* C30: the cards displayed after a generate are exactly its final list, in order; the
\* key of every displayed track is in the record handed to the save, and every key the
\* generate added to the record is the key of a displayed track.
C30_DisplayedIsRecorded ==
  \A p \in Tabs : Returned(p) => DisplayedIsRecorded(filteredTracks(playlist[p]), run[p])

\* two tracks with one identifier and different keys are both displayed and recorded
C30_Witness ==
  \E p \in Tabs :
    /\ Returned(p) /\ Len(filteredTracks(playlist[p])) = 2
    /\ playlist[p].tracks[1].id = playlist[p].tracks[2].id
    /\ Cardinality(KeysAdded(run[p])) = 2

=============================================================================
